---- MODULE Spec2Model ----
(***************************************************************************)
(* Model of the filesystem syscall bridge of wasmexec (fs.go): the error   *)
(* translator fsErrorResponse, the mode translation jsMode, the stat       *)
(* projector jsStat and the two bridge functions fsChmod and fsStat.       *)
(*                                                                         *)
(* The bridge keeps no state of its own.  The state of the model is what   *)
(* an invocation does to its surroundings: the messages it hands to the    *)
(* module's error sink, the invocations of the guest's callback, the       *)
(* calls it makes on the host filesystem and the value it returns.         *)
(***************************************************************************)
EXTENDS Integers, Sequences, FiniteSets, TLC

VARIABLES
    hostFS,     \* TRUE iff the factories were given a non-nil HostFS
    pc,         \* position of the driver of the function under study
    fn,         \* the bridge function of the last invocation
    args,       \* the argument vector of the last invocation
    sink,       \* mod.error messages of the last invocation, in order
    cbCalls,    \* argument vectors the callback was invoked with, in order
    fsCalls,    \* operations invoked on hostFS, in order
    ret,        \* the value the bridge function returned
    arg,        \* input of the pure function under study
    res         \* its result

vars == <<hostFS, pc, fn, args, sink, cbCalls, fsCalls, ret, arg, res>>

bridgeVars == <<hostFS, fn, args, sink, cbCalls, fsCalls, ret>>

(***************************************************************************)
(* Bounds of the model.                                                    *)
(***************************************************************************)
\* longest argument vector a guest passes to a bridge function
MaxArgs == 4
\* deepest chain of wrappers around a host error
MaxWrap == 2

(***************************************************************************)
(* Host errors.  An error is a chain of wrappers around a base error.      *)
(* PathError and SyscallError are the os wrappers, Wrap is any other       *)
(* error with an Unwrap method (fmt.Errorf with %w).  The base is the      *)
(* sentinel fs.ErrNotExist, a syscall.Errno, or an opaque error.           *)
(***************************************************************************)
OsWrappers == {"PathError", "SyscallError"}

Wrappers == OsWrappers \cup {"Wrap"}

\* errno numbers of the model: 0, EPERM, ENOENT, EACCES, ENOSYS
Errnos == {0, 1, 2, 13, 38}

BaseErrors ==
    {[kind |-> "ErrNotExist", n |-> 0], [kind |-> "Opaque", n |-> 0]}
        \cup {[kind |-> "Errno", n |-> e] : e \in Errnos}

WrapChains == UNION {[1..d -> Wrappers] : d \in 0..MaxWrap}

HostErrors == {[wraps |-> w, base |-> b] : w \in WrapChains, b \in BaseErrors}

\* the nil error
NoError == [wraps |-> <<>>, base |-> [kind |-> "nil", n |-> 0]]

IsNilError(err) == err.base.kind = "nil"

\* errors.Unwrap: the wrapped error, or nil when err wraps nothing
Unwrap(err) ==
    IF Len(err.wraps) > 0
    THEN [wraps |-> Tail(err.wraps), base |-> err.base]
    ELSE NoError

\* syscall.Errno.Error: the message of the errno table, never its symbol
ErrnoError(n) ==
    CASE n = 1 -> "operation not permitted"
      [] n = 2 -> "no such file or directory"
      [] n = 13 -> "permission denied"
      [] n = 38 -> "function not implemented"
      [] OTHER -> "errno 0"

BaseMessage(b) ==
    CASE b.kind = "ErrNotExist" -> "file does not exist"
      [] b.kind = "Errno" -> ErrnoError(b.n)
      [] OTHER -> "boom"

WrapPrefix(w) ==
    CASE w = "PathError" -> "op path: "
      [] w = "SyscallError" -> "syscall: "
      [] OTHER -> "wrapped: "

RECURSIVE ChainMessage(_, _)
ChainMessage(w, b) ==
    IF w = <<>> THEN BaseMessage(b)
    ELSE WrapPrefix(Head(w)) \o ChainMessage(Tail(w), b)

\* err.Error()
ErrorText(err) == ChainMessage(err.wraps, err.base)

\* os.underlyingError: strips one os wrapper, and no other wrapper
underlyingError(err) ==
    IF Len(err.wraps) > 0 /\ Head(err.wraps) \in OsWrappers
    THEN Unwrap(err)
    ELSE err

\* os.IsNotExist: the underlying error is the sentinel or the errno ENOENT
IsNotExist(err) ==
    LET u == underlyingError(err) IN
        /\ u.wraps = <<>>
        /\ \/ u.base.kind = "ErrNotExist"
           \/ u.base.kind = "Errno" /\ u.base.n = 2

\* the type assertion err.(syscall.Errno): the errno, or 0 when err is none
AsErrno(err) ==
    IF err.wraps = <<>> /\ err.base.kind = "Errno" THEN err.base.n ELSE 0

(***************************************************************************)
(* Errno symbols and error responses (errno.go of the package).            *)
(***************************************************************************)
eNOENT == "ENOENT"

eNOSYS == "ENOSYS"

ErrnoSymbols == {"EPERM", "ENOENT", "EACCES", "ENOSYS"}

\* errno(message): the canonical symbol of the errno with that message
errno(msg) ==
    CASE msg = "operation not permitted" -> "EPERM"
      [] msg = "no such file or directory" -> "ENOENT"
      [] msg = "permission denied" -> "EACCES"
      [] msg = "function not implemented" -> "ENOSYS"
      [] OTHER -> msg

\* errorResponse(code): a one-element vector holding the error bag
errorResponse(code) == <<[error |-> code]>>

\* fsErrorResponse without the not-exist classification
fsErrorResponseNoClassify(err) ==
    LET base == Unwrap(err)
        e == IF ~IsNilError(base) THEN base ELSE err
        errnoErr == AsErrno(e)
    IN  IF errnoErr # 0
        THEN errorResponse(errno(ErrnoError(errnoErr)))
        ELSE <<[error |-> ErrorText(e)]>>

\* fsErrorResponse unwrapping until no wrapper is left
RECURSIVE fsErrorResponseUnwrapAll(_)
fsErrorResponseUnwrapAll(err) ==
    IF IsNotExist(err) THEN errorResponse(eNOENT)
    ELSE IF ~IsNilError(Unwrap(err)) THEN fsErrorResponseUnwrapAll(Unwrap(err))
    ELSE IF AsErrno(err) # 0
         THEN errorResponse(errno(ErrnoError(AsErrno(err))))
         ELSE <<[error |-> ErrorText(err)]>>

fsErrorResponse(err) ==
    IF IsNotExist(err) THEN errorResponse(eNOENT)
    ELSE
        LET base == Unwrap(err)
            e == IF ~IsNilError(base) THEN base ELSE err
            errnoErr == AsErrno(e)
        IN  IF errnoErr # 0
            THEN errorResponse(errno(ErrnoError(errnoErr)))
            ELSE <<[error |-> ErrorText(e)]>>

(***************************************************************************)
(* File modes.  A mode is the set of the positions of its set bits, so     *)
(* that &, | and &^ are intersection, union and difference on 32 bits.     *)
(***************************************************************************)
ModeDir == 31

ModeSymlink == 27

ModeDevice == 26

ModeNamedPipe == 25

ModeSocket == 24

ModeCharDevice == 21

ModeIrregular == 19

\* fs.ModeType
ModeType ==
    {ModeDir, ModeSymlink, ModeNamedPipe, ModeSocket, ModeDevice,
     ModeCharDevice, ModeIrregular}

S_IFDIR == {14}

S_IFCHR == {13}

S_IFIFO == {12}

S_IFLNK == {15, 13}

S_IFSOCK == {15, 14}

\* a table that maps the symlink bit onto the named-pipe bit of FileMode
modeBitTranslationIntoDomain ==
    (ModeDir :> S_IFDIR) @@ (ModeCharDevice :> S_IFCHR)
        @@ (ModeNamedPipe :> S_IFIFO) @@ (ModeSymlink :> {ModeNamedPipe})
        @@ (ModeSocket :> S_IFSOCK)

modeBitTranslation ==
    (ModeDir :> S_IFDIR) @@ (ModeCharDevice :> S_IFCHR)
        @@ (ModeNamedPipe :> S_IFIFO) @@ (ModeSymlink :> S_IFLNK)
        @@ (ModeSocket :> S_IFSOCK)

\* the keys of the table, as the map literal lists them
TableKeys ==
    <<ModeDir, ModeCharDevice, ModeNamedPipe, ModeSymlink, ModeSocket>>

\* the orders in which range may visit the entries of the table: all of them
TableOrders ==
    {[i \in 1..Len(TableKeys) |-> TableKeys[p[i]]] :
        p \in Permutations(1..Len(TableKeys))}

\* one iteration of the loop of jsMode
jsModeStep(mode, goBit) ==
    IF goBit \in mode
    THEN (mode \ {goBit}) \cup modeBitTranslation[goBit]
    ELSE mode

RECURSIVE jsModeLoop(_, _)
jsModeLoop(mode, order) ==
    IF order = <<>> THEN mode
    ELSE jsModeLoop(jsModeStep(mode, Head(order)), Tail(order))

\* jsMode with the table visited in the given order; the result is a uint32
jsMode(mode, order) == jsModeLoop(mode, order) \cap (0..31)

(***************************************************************************)
(* Go's integer division and remainder truncate toward zero.               *)
(***************************************************************************)
GoDiv(a, b) == IF a >= 0 THEN a \div b ELSE -((-a) \div b)

GoRem(a, b) == a - b * GoDiv(a, b)

\* division rounding toward minus infinity
FloorDiv(a, b) == a \div b

blockSize == 4096

blockCount(size, bs) ==
    LET blocks == GoDiv(size, bs) IN
        IF GoRem(size, bs) > 0 THEN blocks + 1 ELSE blocks

(***************************************************************************)
(* The two shared boolean functions and the stat projector.                *)
(***************************************************************************)
funcTrue == [fn |-> "returns true"]

funcFalse == [fn |-> "returns false"]

\* the result of calling one of the two boolean functions
CallBool(f) == f.fn = "returns true"

jsBoolFuncSwapped(b) == IF b THEN funcFalse ELSE funcTrue

jsBoolFunc(b) == IF b THEN funcTrue ELSE funcFalse

\* the nil fs.FileInfo
NilInfo == [isNil |-> TRUE, mode |-> {}, size |-> 0, modTime |-> 0]

\* the nil *jsObject
NilObject == [isNil |-> TRUE, properties |-> [f \in {} |-> 0]]

\* fs.FileMode.IsRegular
IsRegular(mode) == mode \cap ModeType = {}

\* fs.FileInfo.IsDir
IsDir(info) == ModeDir \in info.mode

\* jsStat dividing the modification time with rounding toward minus infinity
jsStatFloor(info, order) ==
    IF info.isNil THEN NilObject
    ELSE
        LET modTime == FloorDiv(info.modTime, 1000000) IN
        [isNil |-> FALSE,
         properties |->
            [dev |-> 0, ino |-> 0, mode |-> jsMode(info.mode, order),
             nlink |-> 1, uid |-> 0, gid |-> 0, rdev |-> 0,
             size |-> info.size, blksize |-> blockSize,
             blocks |-> blockCount(info.size, blockSize),
             atimeMs |-> modTime, mtimeMs |-> modTime, ctimeMs |-> modTime,
             isBlockDevice |-> funcFalse, isCharacterDevice |-> funcFalse,
             isDirectory |-> jsBoolFunc(IsDir(info)), isFIFO |-> funcFalse,
             isFile |-> jsBoolFunc(IsRegular(info.mode)),
             isSocket |-> funcFalse,
             isSymbolicLink |-> jsBoolFunc(ModeSymlink \in info.mode)]]

\* jsStat leaving the two stubbed fields uid and gid out of the object
jsStatNoIds(info, order) ==
    IF info.isNil THEN NilObject
    ELSE
        LET modTime == GoDiv(info.modTime, 1000000) IN
        [isNil |-> FALSE,
         properties |->
            [dev |-> 0, ino |-> 0, mode |-> jsMode(info.mode, order),
             nlink |-> 1, rdev |-> 0,
             size |-> info.size, blksize |-> blockSize,
             blocks |-> blockCount(info.size, blockSize),
             atimeMs |-> modTime, mtimeMs |-> modTime, ctimeMs |-> modTime,
             isBlockDevice |-> funcFalse, isCharacterDevice |-> funcFalse,
             isDirectory |-> jsBoolFunc(IsDir(info)), isFIFO |-> funcFalse,
             isFile |-> jsBoolFunc(IsRegular(info.mode)),
             isSocket |-> funcFalse,
             isSymbolicLink |-> jsBoolFunc(ModeSymlink \in info.mode)]]

jsStat(info, order) ==
    IF info.isNil THEN NilObject
    ELSE
        LET modTime == GoDiv(info.modTime, 1000000) IN
        [isNil |-> FALSE,
         properties |->
            [dev |-> 0, ino |-> 0, mode |-> jsMode(info.mode, order),
             nlink |-> 1, uid |-> 0, gid |-> 0, rdev |-> 0,
             size |-> info.size, blksize |-> blockSize,
             blocks |-> blockCount(info.size, blockSize),
             atimeMs |-> modTime, mtimeMs |-> modTime, ctimeMs |-> modTime,
             isBlockDevice |-> funcFalse, isCharacterDevice |-> funcFalse,
             isDirectory |-> jsBoolFunc(IsDir(info)), isFIFO |-> funcFalse,
             isFile |-> jsBoolFunc(IsRegular(info.mode)),
             isSocket |-> funcFalse,
             isSymbolicLink |-> jsBoolFunc(ModeSymlink \in info.mode)]]

(***************************************************************************)
(* Values of the argument vector: each carries its Go dynamic type.        *)
(***************************************************************************)
JsString(p) == [t |-> "jsString", s |-> p, n |-> 0]

GoInt(i) == [t |-> "int", s |-> "", n |-> i]

GoFloat(i) == [t |-> "float64", s |-> "", n |-> i]

JsFunction == [t |-> "jsFunction", s |-> "callback", n |-> 0]

NilValue == [t |-> "nil", s |-> "", n |-> 0]

\* the values a guest passes: a path, the mode 0o644, a callback, and others
Values == {JsString("/tmp/x"), GoInt(420), GoFloat(420), JsFunction, NilValue}

ArgVectors == UNION {[1..k -> Values] : k \in 0..MaxArgs}

(***************************************************************************)
(* What one invocation of a bridge function does.                          *)
(***************************************************************************)
RetNil == [isNil |-> TRUE, val |-> <<>>]

RetVector(v) == [isNil |-> FALSE, val |-> v]

Outcome(s, c, f, r) == [sink |-> s, cb |-> c, fs |-> f, ret |-> r]

\* a call on hostFS together with the error it answered
FsCall(op, path, mode, err) ==
    [op |-> op, path |-> path, mode |-> mode, err |-> err]

\* the conversion fs.FileMode(mode) of an int that fits 31 bits
FileMode(i) == i

\* errorCallback(code): a function that reports code to its callback
errorCallback(code, a) ==
    Outcome(<<>>, <<errorResponse(code)>>, <<>>, RetNil)

\* fsChmod that does not check the dynamic type of the mode argument
fsChmodNoModeCheck(h, a, err) ==
    IF ~h THEN errorCallback(eNOSYS, a)
    ELSE IF Len(a) # 3
    THEN Outcome(<<"fs.chmod: %d: invalid number of arguments">>, <<>>, <<>>, RetNil)
    ELSE IF a[1].t # "jsString"
    THEN Outcome(<<"fs.chmod: %T: not type string">>, <<>>, <<>>, RetNil)
    ELSE IF a[3].t # "jsFunction"
    THEN Outcome(<<"fs.chmod: %T: not type jsFunction">>, <<>>, <<>>, RetNil)
    ELSE
        LET call == FsCall("Chmod", a[1].s, FileMode(a[2].n), err) IN
        IF ~IsNilError(err)
        THEN Outcome(<<"fs.chmod: %v">>, <<>>, <<call>>, RetVector(fsErrorResponse(err)))
        ELSE Outcome(<<>>, <<<<NilValue>>>>, <<call>>, RetNil)

\* fsChmod that does not report a failed Chmod to the error sink
fsChmodSilent(h, a, err) ==
    IF ~h THEN errorCallback(eNOSYS, a)
    ELSE IF Len(a) # 3
    THEN Outcome(<<"fs.chmod: %d: invalid number of arguments">>, <<>>, <<>>, RetNil)
    ELSE IF a[1].t # "jsString"
    THEN Outcome(<<"fs.chmod: %T: not type string">>, <<>>, <<>>, RetNil)
    ELSE IF a[2].t # "int"
    THEN Outcome(<<"fs.chmod: %T: not type int">>, <<>>, <<>>, RetNil)
    ELSE IF a[3].t # "jsFunction"
    THEN Outcome(<<"fs.chmod: %T: not type jsFunction">>, <<>>, <<>>, RetNil)
    ELSE
        LET call == FsCall("Chmod", a[1].s, FileMode(a[2].n), err) IN
        IF ~IsNilError(err)
        THEN Outcome(<<>>, <<>>, <<call>>, RetVector(fsErrorResponse(err)))
        ELSE Outcome(<<>>, <<<<NilValue>>>>, <<call>>, RetNil)

\* fsChmod: the function the factory returns, applied to the vector a, with
\* err the error hostFS.Chmod answers if it is called
fsChmod(h, a, err) ==
    IF ~h THEN errorCallback(eNOSYS, a)
    ELSE IF Len(a) # 3
    THEN Outcome(<<"fs.chmod: %d: invalid number of arguments">>, <<>>, <<>>, RetNil)
    ELSE IF a[1].t # "jsString"
    THEN Outcome(<<"fs.chmod: %T: not type string">>, <<>>, <<>>, RetNil)
    ELSE IF a[2].t # "int"
    THEN Outcome(<<"fs.chmod: %T: not type int">>, <<>>, <<>>, RetNil)
    ELSE IF a[3].t # "jsFunction"
    THEN Outcome(<<"fs.chmod: %T: not type jsFunction">>, <<>>, <<>>, RetNil)
    ELSE
        LET call == FsCall("Chmod", a[1].s, FileMode(a[2].n), err) IN
        IF ~IsNilError(err)
        THEN Outcome(<<"fs.chmod: %v">>, <<>>, <<call>>, RetVector(fsErrorResponse(err)))
        ELSE Outcome(<<>>, <<<<NilValue>>>>, <<call>>, RetNil)

\* fsStat whose factory does not look at hostFS
fsStatNoNilCheck(h, a, ans, order) ==
    IF Len(a) # 2
    THEN Outcome(<<"fs.stat: %d: invalid number of arguments">>, <<>>, <<>>, RetNil)
    ELSE IF a[1].t # "jsString"
    THEN Outcome(<<"fs.stat: %T: not type string">>, <<>>, <<>>, RetNil)
    ELSE IF a[2].t # "jsFunction"
    THEN Outcome(<<"fs.chmod: %T: not type jsFunction">>, <<>>, <<>>, RetNil)
    ELSE
        LET call == FsCall("Stat", a[1].s, 0, ans.err) IN
        IF ~IsNilError(ans.err)
        THEN Outcome(<<>>, <<>>, <<call>>, RetVector(fsErrorResponse(ans.err)))
        ELSE Outcome(<<>>, <<<<jsStat(ans.info, order)>>>>, <<call>>, RetNil)

\* fsStat: the function the factory returns, applied to the vector a, with
\* ans the (info, err) pair hostFS.Stat answers if it is called
fsStat(h, a, ans, order) ==
    IF ~h THEN errorCallback(eNOSYS, a)
    ELSE IF Len(a) # 2
    THEN Outcome(<<"fs.stat: %d: invalid number of arguments">>, <<>>, <<>>, RetNil)
    ELSE IF a[1].t # "jsString"
    THEN Outcome(<<"fs.stat: %T: not type string">>, <<>>, <<>>, RetNil)
    ELSE IF a[2].t # "jsFunction"
    THEN Outcome(<<"fs.chmod: %T: not type jsFunction">>, <<>>, <<>>, RetNil)
    ELSE
        LET call == FsCall("Stat", a[1].s, 0, ans.err) IN
        IF ~IsNilError(ans.err)
        THEN Outcome(<<>>, <<>>, <<call>>, RetVector(fsErrorResponse(ans.err)))
        ELSE Outcome(<<>>, <<<<jsStat(ans.info, order)>>>>, <<call>>, RetNil)

(***************************************************************************)
(* The host filesystem is the environment: what it answers is arbitrary.   *)
(***************************************************************************)
ChmodAnswers == HostErrors \cup {NoError}

\* the entries hostFS.Stat answers with in the bridge specification
BridgeInfos ==
    {[isNil |-> FALSE, mode |-> m, size |-> 4097, modTime |-> 1500000] :
        m \in {{8, 7, 5, 2}, {ModeDir, 8, 7, 6}, {ModeSymlink, 8},
               {ModeDevice, ModeCharDevice, 8}}}

StatAnswers ==
    {[info |-> i, err |-> NoError] : i \in BridgeInfos \cup {NilInfo}}
        \cup {[info |-> NilInfo, err |-> e] : e \in HostErrors}

\* one order of the table, for the runs that never range over it
SomeOrder == CHOOSE o \in TableOrders : TRUE

\* what the surroundings decide in a run of fsStat: the answer of hostFS.Stat
\* and, where an entry is answered, the order in which range visits the table
StatRuns ==
    {[ans |-> s, order |-> o] :
        s \in {x \in StatAnswers : ~x.info.isNil}, o \in TableOrders}
        \cup {[ans |-> s, order |-> SomeOrder] :
                s \in {x \in StatAnswers : x.info.isNil}}

(***************************************************************************)
(* Spec: one invocation of fsChmod(mod, hostFS) or of fsStat(mod, hostFS). *)
(***************************************************************************)
Observe(f, a, o) ==
    /\ fn' = f
    /\ args' = a
    /\ sink' = o.sink
    /\ cbCalls' = o.cb
    /\ fsCalls' = o.fs
    /\ ret' = o.ret
    /\ pc' = "returned"
    /\ UNCHANGED <<hostFS, arg, res>>

Init ==
    /\ hostFS \in BOOLEAN
    /\ pc = "idle"
    /\ fn = "none"
    /\ args = <<>>
    /\ sink = <<>>
    /\ cbCalls = <<>>
    /\ fsCalls = <<>>
    /\ ret = RetNil
    /\ arg = 0
    /\ res = 0

InvokeChmod ==
    /\ pc = "idle"
    /\ \E a \in ArgVectors, err \in ChmodAnswers :
        Observe("chmod", a, fsChmod(hostFS, a, err))

InvokeStat ==
    /\ pc = "idle"
    /\ \E a \in ArgVectors, run \in StatRuns :
        Observe("stat", a, fsStat(hostFS, a, run.ans, run.order))

Next == InvokeChmod \/ InvokeStat

Spec == Init /\ [][Next]_vars

(***************************************************************************)
(* SpecError: fsErrorResponse applied to one host error.                   *)
(***************************************************************************)
IdleBridge ==
    /\ hostFS = FALSE
    /\ fn = "none"
    /\ args = <<>>
    /\ sink = <<>>
    /\ cbCalls = <<>>
    /\ fsCalls = <<>>
    /\ ret = RetNil

InitError ==
    /\ IdleBridge
    /\ pc = "error"
    /\ arg \in HostErrors
    /\ res = <<>>

TranslateError ==
    /\ pc = "error"
    /\ res' = fsErrorResponse(arg)
    /\ pc' = "translated"
    /\ UNCHANGED <<bridgeVars, arg>>

NextError == TranslateError

SpecError == InitError /\ [][NextError]_vars

(***************************************************************************)
(* SpecMode: jsMode applied to a mode, and again to its own result.        *)
(***************************************************************************)
\* the bits of the inputs: the table's keys, ModeDevice, the four bits of
\* the POSIX file type, and two permission bits
ModeInputBits ==
    DOMAIN modeBitTranslation \cup {ModeDevice} \cup (12..15) \cup {8, 0}

InitMode ==
    /\ IdleBridge
    /\ pc = "mode"
    /\ arg \in SUBSET ModeInputBits
    /\ res = {}

ApplyJsMode ==
    /\ pc = "mode"
    /\ \E order \in TableOrders : res' = jsMode(arg, order)
    /\ pc' = "applied"
    /\ UNCHANGED <<bridgeVars, arg>>

ReapplyJsMode ==
    /\ pc = "applied"
    /\ arg' = res
    /\ \E order \in TableOrders : res' = jsMode(res, order)
    /\ pc' = "reapplied"
    /\ UNCHANGED bridgeVars

NextMode == ApplyJsMode \/ ReapplyJsMode

SpecMode == InitMode /\ [][NextMode]_vars

(***************************************************************************)
(* SpecStat: jsStat applied to one fs.FileInfo, or to nil.                 *)
(***************************************************************************)
StatModes ==
    SUBSET {ModeDir, ModeSymlink, ModeDevice, ModeNamedPipe, ModeSocket,
            ModeCharDevice, 8}

StatSizes == {0, 1, 4096, 4097}

\* modification times in nanoseconds since the epoch
StatModTimes == {-1000001, -1000000, -1, 0, 999999, 1000000}

FileInfos ==
    {[isNil |-> FALSE, mode |-> m, size |-> z, modTime |-> t] :
        m \in StatModes, z \in StatSizes, t \in StatModTimes}

InitStat ==
    /\ IdleBridge
    /\ pc = "stat"
    /\ arg \in FileInfos \cup {NilInfo}
    /\ res = NilObject

ProjectStat ==
    /\ pc = "stat"
    /\ \E order \in TableOrders : res' = jsStat(arg, order)
    /\ pc' = "projected"
    /\ UNCHANGED <<bridgeVars, arg>>

NextStat == ProjectStat

SpecStat == InitStat /\ [][NextStat]_vars

(***************************************************************************)
(* Properties of the bridge functions, checked under Spec.                 *)
(***************************************************************************)
ChmodArgsValid(a) ==
    /\ Len(a) = 3
    /\ a[1].t = "jsString"
    /\ a[2].t = "int"
    /\ a[3].t = "jsFunction"

StatArgsValid(a) ==
    /\ Len(a) = 2
    /\ a[1].t = "jsString"
    /\ a[2].t = "jsFunction"

\* the last invocation passed the checks of arity and of types
Validated ==
    \/ fn = "chmod" /\ ChmodArgsValid(args)
    \/ fn = "stat" /\ StatArgsValid(args)

Returned == pc = "returned"

\* hostFS was called and answered an error
FsFailed == Len(fsCalls) > 0 /\ ~IsNilError(fsCalls[1].err)

\* v is an error response that carries the symbol code
Carries(v, code) ==
    /\ Len(v) >= 1
    /\ "error" \in DOMAIN v[1]
    /\ v[1].error = code

\* C1: with a non-nil filesystem, every invocation of fsChmod or fsStat whose
\* arguments pass validation invokes the callback exactly once before it
\* returns, whether Chmod/Stat succeeded or answered an error.
C1_CallbackOncePerValidCall ==
    (Returned /\ hostFS /\ Validated) => Len(cbCalls) = 1

\* C2: with a non-nil filesystem, an argument vector of the wrong length or
\* with an argument of the wrong type makes the sink receive exactly one
\* message, and neither the callback nor hostFS is called.
C2_InvalidArgsReportOnceAndAbort ==
    (Returned /\ hostFS /\ ~Validated) =>
        /\ Len(sink) = 1
        /\ cbCalls = <<>>
        /\ fsCalls = <<>>

\* a chmod call whose mode is a float64 was rejected with one message
C2_Witness ==
    /\ Returned /\ hostFS /\ fn = "chmod"
    /\ Len(args) = 3 /\ args[1].t = "jsString" /\ args[2].t = "float64"
    /\ args[3].t = "jsFunction"
    /\ sink = <<"fs.chmod: %T: not type int">>
    /\ cbCalls = <<>> /\ fsCalls = <<>>

Translated == pc = "translated"

\* the error at the bottom of the chain is a not-found error
NotFoundBase(err) ==
    \/ err.base.kind = "ErrNotExist"
    \/ err.base.kind = "Errno" /\ err.base.n = 2

\* a not-found error, bare or inside exactly one os wrapper
NotFoundWithinOneOsWrapper(err) ==
    /\ NotFoundBase(err)
    /\ \/ err.wraps = <<>>
       \/ Len(err.wraps) = 1 /\ err.wraps[1] \in {"PathError", "SyscallError"}

\* the error one level down, or the error itself when it wraps nothing
OneLevelDown(err) ==
    IF err.wraps = <<>> THEN err
    ELSE [wraps |-> Tail(err.wraps), base |-> err.base]

SymbolOf(n) ==
    CASE n = 1 -> "EPERM"
      [] n = 2 -> "ENOENT"
      [] n = 13 -> "EACCES"
      [] n = 38 -> "ENOSYS"

\* the generic response: one bag whose only field is the message of err
IsMessageResponse(v, err) ==
    /\ Len(v) = 1
    /\ DOMAIN v[1] = {"error"}
    /\ v[1].error = ErrorText(err)
    /\ v[1].error \notin ErrnoSymbols

\* C5 as stated: a not-found error yields the ENOENT response whatever the
\* number of wrappers around it.
C5_NotFoundAtAnyDepth ==
    (Translated /\ NotFoundBase(arg)) => res = <<[error |-> "ENOENT"]>>

\* C5 as amended: a not-found error that is bare or inside exactly one os
\* wrapper yields the ENOENT response, ahead of the unwrap and errno steps;
\* inside two or more wrappers it yields the message of the error one level
\* down instead.
C5_NotFoundWithinOneOsWrapper ==
    /\ (Translated /\ NotFoundWithinOneOsWrapper(arg)) =>
            res = <<[error |-> "ENOENT"]>>
    /\ (Translated /\ NotFoundBase(arg) /\ Len(arg.wraps) >= 2) =>
            IsMessageResponse(res, OneLevelDown(arg))

\* fs.ErrNotExist inside a PathError got ENOENT, not the sentinel's message
C5_Witness ==
    /\ Translated
    /\ arg.wraps = <<"PathError">> /\ arg.base.kind = "ErrNotExist"
    /\ res = <<[error |-> "ENOENT"]>>

\* C6: an error that is not classified as not-found is unwrapped at most
\* once; a nonzero errno found there yields the response with its symbol,
\* anything else (no errno, errno 0, an errno two or more levels down) the
\* one-bag response with the message and no symbol.
C6_ErrnoSymbolOrMessage ==
    (Translated /\ ~NotFoundWithinOneOsWrapper(arg)) =>
        IF Len(arg.wraps) <= 1 /\ arg.base.kind = "Errno" /\ arg.base.n # 0
        THEN res = <<[error |-> SymbolOf(arg.base.n)]>>
        ELSE IsMessageResponse(res, OneLevelDown(arg))

\* EACCES one level down got its symbol, and EACCES two levels down a message
C6_Witness ==
    /\ Translated
    /\ arg.base = [kind |-> "Errno", n |-> 13]
    /\ \/ arg.wraps = <<"Wrap">> /\ res = <<[error |-> "EACCES"]>>
       \/ /\ arg.wraps = <<"Wrap", "PathError">>
          /\ res = <<[error |-> "op path: permission denied"]>>

(***************************************************************************)
(* Properties of jsMode, checked under SpecMode.                           *)
(***************************************************************************)
\* the POSIX bits that stand for the bit g of FileMode
PosixOf(g) ==
    CASE g = 31 -> {14}
      [] g = 21 -> {13}
      [] g = 25 -> {12}
      [] g = 27 -> {15, 13}
      [] g = 24 -> {15, 14}

TranslatedBits == {31, 21, 25, 27, 24}

\* mode with every table bit cleared and its POSIX value set instead
Rewritten(mode) ==
    (mode \ TranslatedBits)
        \cup UNION {PosixOf(g) : g \in mode \cap TranslatedBits}

\* C7: jsMode returns its input with each set bit of the table cleared and
\* replaced by its S_IF* value and every other bit unchanged, whatever the
\* order of the visit, and maps an already translated value to itself.
C7_ModeRewriteIdempotent ==
    /\ pc = "applied" => res = Rewritten(arg)
    /\ pc = "reapplied" => res = arg

\* a directory symlink with a permission bit, translated and translated again
C7_Witness ==
    /\ pc = "reapplied"
    /\ arg = {15, 14, 13, 8}
    /\ res = arg

(***************************************************************************)
(* Properties of jsStat, checked under SpecStat.                           *)
(***************************************************************************)
Projected == pc = "projected"

TypeBits == {31, 27, 26, 25, 24, 21, 19}

\* a regular file, a directory or a symbolic link
WellFormedEntry(info) ==
    \/ info.mode \cap TypeBits = {}
    \/ info.mode \cap TypeBits = {31}
    \/ info.mode \cap TypeBits = {27}

\* C8: for a regular file, a directory or a symlink exactly one of
\* isDirectory, isFile, isSymbolicLink returns true; isBlockDevice,
\* isCharacterDevice, isFIFO and isSocket return false for every entry.
C8_PredicatesConsistent ==
    (Projected /\ ~arg.isNil) =>
        LET p == res.properties IN
        /\ WellFormedEntry(arg) =>
            Cardinality({f \in {"isDirectory", "isFile", "isSymbolicLink"} :
                            CallBool(p[f])}) = 1
        /\ \A f \in {"isBlockDevice", "isCharacterDevice", "isFIFO", "isSocket"} :
                ~CallBool(p[f])

\* a symlink: isSymbolicLink alone is true
C8_Witness ==
    /\ Projected /\ ~arg.isNil
    /\ arg.mode \cap TypeBits = {27}
    /\ CallBool(res.properties.isSymbolicLink)
    /\ ~CallBool(res.properties.isFile)
    /\ ~CallBool(res.properties.isDirectory)

StatFields ==
    {"dev", "ino", "mode", "nlink", "uid", "gid", "rdev", "size", "blksize",
     "blocks", "atimeMs", "mtimeMs", "ctimeMs", "isBlockDevice",
     "isCharacterDevice", "isDirectory", "isFIFO", "isFile", "isSocket",
     "isSymbolicLink"}

\* C9 as stated: the object for non-nil metadata has a fixed set of 18
\* field names, and nil metadata yields no object.
C9_EighteenFields ==
    /\ (Projected /\ ~arg.isNil) =>
            ~res.isNil /\ Cardinality(DOMAIN res.properties) = 18
    /\ (Projected /\ arg.isNil) => res.isNil

\* C9 as amended: the object for non-nil metadata has the same fixed set of
\* 20 field names whatever the metadata, and nil metadata yields no object.
C9_TwentyFields ==
    /\ (Projected /\ ~arg.isNil) =>
            /\ ~res.isNil
            /\ DOMAIN res.properties = StatFields
            /\ Cardinality(DOMAIN res.properties) = 20
    /\ (Projected /\ arg.isNil) =>
            res.isNil /\ DOMAIN res.properties = {}

\* an empty regular file at the epoch still has all the fields
C9_Witness ==
    /\ Projected /\ ~arg.isNil
    /\ arg.mode = {} /\ arg.size = 0 /\ arg.modTime = 0
    /\ "uid" \in DOMAIN res.properties
    /\ "isSocket" \in DOMAIN res.properties

\* C10 as stated: the three times equal the floor of the modification time
\* in nanoseconds divided by 1,000,000, also before the epoch.
C10_TimesAreFloor ==
    (Projected /\ ~arg.isNil) =>
        LET p == res.properties IN
        /\ p.atimeMs = FloorDiv(arg.modTime, 1000000)
        /\ p.mtimeMs = FloorDiv(arg.modTime, 1000000)
        /\ p.ctimeMs = FloorDiv(arg.modTime, 1000000)

\* C10 as amended: the three times are equal, and are the modification time
\* in nanoseconds divided by 1,000,000 and rounded toward zero: the floor
\* from the epoch on, the ceiling before it.
C10_TimesAreTruncated ==
    (Projected /\ ~arg.isNil) =>
        LET p == res.properties
            t == p.atimeMs
            ns == arg.modTime
        IN  /\ p.mtimeMs = t
            /\ p.ctimeMs = t
            /\ ns >= 0 => (t * 1000000 <= ns /\ ns < (t + 1) * 1000000)
            /\ ns < 0 => ((t - 1) * 1000000 < ns /\ ns <= t * 1000000)

\* one nanosecond before the epoch is millisecond 0, not -1
C10_Witness ==
    /\ Projected /\ ~arg.isNil
    /\ arg.modTime = -1
    /\ res.properties.mtimeMs = 0

====
